---------------------------- MODULE Spec2Model ----------------------------
(***************************************************************************)
(* A model of the news reader client: the content pipeline of reader.js    *)
(* (Reader.fetchArticleContent, parseContent, markdownToHtml,              *)
(* formatContent, extractContent) and the article modal of api.js          *)
(* (UI.openArticleModal, closeArticleModal, loadArticleContent,            *)
(* showReaderMode, showEmbedMode), the search history of api.js            *)
(* (UI.addToSearchHistory, removeFromSearchHistory, clearSearchHistory,    *)
(* loadSearchHistory, saveSearchHistory) and the news loader of app.js     *)
(* (App.loadNews, handleCategoryClick, handleSearch).                      *)
(*                                                                         *)
(* Strings are sequences of tokens.  A token is an atomic piece of text:   *)
(* a tag ("<script>"), a markdown metacharacter ("*", "[", "]", "(", ")",  *)
(* "!"), a header marker ("# "), a whitespace character (" ", "\n") or a   *)
(* run of plain text that holds none of those.  Concatenation of strings   *)
(* is \o, and the regular expressions and the HTML parser of the source    *)
(* are run token by token.                                                 *)
(***************************************************************************)
EXTENDS Integers, Sequences, FiniteSets, Bags, TLC

VARIABLES
    \* ---- Reader (reader.js) ----
    JINA_API_KEY,   \* Reader.JINA_API_KEY: the configured credential, "" when none
    rpc,            \* position of one Reader.extractContent call
    net,            \* what the network does to that call's request
    contentData,    \* settled promise of Reader.fetchArticleContent
    extracted,      \* settled promise of Reader.extractContent
    \* ---- the normalizer functions applied to an arbitrary input ----
    npc,            \* "input" before, "done" after the functions are applied
    raw,            \* the input value (a JS value: undefined or a string)
    parsed,         \* Reader.parseContent(raw)
    converted,      \* Reader.markdownToHtml(raw)
    formatted,      \* Reader.formatContent({success: true, content: raw})
    \* ---- UI (api.js): the article modal ----
    currentArticle, \* UI.currentArticle: Null or an article
    modalActive,    \* modalOverlay.classList contains 'active'
    bodyDisplay,    \* modalBody.style.display    (the reader pane)
    embedDisplay,   \* modalEmbed.style.display   (the embed pane)
    readerBtn,      \* readerModeBtn.classList contains 'active'
    embedBtn,       \* embedModeBtn.classList contains 'active'
    frameSrc,       \* articleFrame.src
    readerContent,  \* readerContent.innerHTML
    pending,        \* bag of articles whose loadArticleContent awaits extractContent
    \* ---- history variables ----
    srcAssigns,     \* assignments of articleFrame.src by showEmbedMode since the last open
    lastOp,         \* the handler that ran last
    shownFor,       \* the article whose open or whose request wrote the reader pane last
    \* ---- UI (api.js): the search history ----
    searchHistory,  \* UI.searchHistory: a list of terms
    stored,         \* localStorage.getItem('newsHub_searchHistory'): null or a string
    storageOk,      \* localStorage.setItem succeeds (FALSE: it throws, quota or privacy mode)
    histOp,         \* history variable: the operation on the history that ran last
    \* ---- App (app.js): the news loader ----
    currentCategory,    \* App.currentCategory
    currentSearchQuery, \* App.currentSearchQuery
    newsInFlight,       \* bag of the requests that calls of App.loadNews await
    sectionTitle,       \* sectionTitle.textContent
    newsGrid,           \* what newsGrid holds: the skeleton, the cards of a response, nothing
    errorShown,         \* errorMessage.style.display is 'flex'
    errorTimers,        \* timeouts of App.handleSearch that have not fired yet
    succeeded           \* history variable: the queries whose search request returned ok

vars == <<JINA_API_KEY, rpc, net, contentData, extracted,
          npc, raw, parsed, converted, formatted,
          currentArticle, modalActive, bodyDisplay, embedDisplay, readerBtn,
          embedBtn, frameSrc, readerContent, pending, srcAssigns, lastOp, shownFor,
          searchHistory, stored, storageOk, histOp,
          currentCategory, currentSearchQuery, newsInFlight, sectionTitle, newsGrid,
          errorShown, errorTimers, succeeded>>

readerVars == <<JINA_API_KEY, rpc, net, contentData, extracted>>
normVars   == <<npc, raw, parsed, converted, formatted>>
uiVars     == <<currentArticle, modalActive, bodyDisplay, embedDisplay, readerBtn,
                embedBtn, frameSrc, readerContent, pending, srcAssigns, lastOp,
                shownFor>>
histVars   == <<searchHistory, stored, storageOk, histOp>>
newsVars   == <<currentCategory, currentSearchQuery, newsInFlight, sectionTitle,
                newsGrid, errorShown, errorTimers, succeeded>>
appVars    == <<histVars, newsVars>>

-----------------------------------------------------------------------------
(* Bounds *)

\* longest text, in tokens: a response body of the extraction service, or a raw
\* text handed to the normalizer functions
MaxLen == 3
\* most content requests in flight at once in the modal
MaxInFlight == 2
\* most segments (a word, a metacharacter, a link token, an image token) of a
\* markdown text
MaxSegments == 2
\* most requests of the news service in flight at once
MaxNewsInFlight == 2
\* most timeouts of App.handleSearch pending at once
MaxTimers == 1

-----------------------------------------------------------------------------
(* JavaScript values and strings *)

JSUndefined == [t |-> "undefined", s |-> <<>>]
JSNull == [t |-> "null", s |-> <<>>]
JSString(s) == [t |-> "string", s |-> s]

\* !v for a value that is undefined, null or a string: undefined, null and ""
\* are falsy
Falsy(v) == v.t = "undefined" \/ v.s = <<>>

Whitespace == {" ", "\n"}

RECURSIVE TrimStart(_)
TrimStart(s) ==
    IF s # <<>> /\ Head(s) \in Whitespace THEN TrimStart(Tail(s)) ELSE s

RECURSIVE TrimEnd(_)
TrimEnd(s) ==
    IF s # <<>> /\ s[Len(s)] \in Whitespace
    THEN TrimEnd(SubSeq(s, 1, Len(s) - 1)) ELSE s

\* String.prototype.trim
Trim(s) == TrimEnd(TrimStart(s))

\* the tokens that hold the needle as a substring
TokensWith(needle) ==
    CASE needle = "<html"     -> {"<html>"}
      [] needle = "<!DOCTYPE" -> {"<!DOCTYPE html>"}
      [] needle = "<script"   -> {"<script>"}
      [] OTHER                -> {needle}

\* String.prototype.includes
Includes(s, needle) == \E i \in 1..Len(s) : s[i] \in TokensWith(needle)

\* index of the first occurrence of tok in s at or after from, 0 when none
RECURSIVE IndexFrom(_, _, _)
IndexFrom(s, tok, from) ==
    IF from > Len(s) THEN 0
    ELSE IF s[from] = tok THEN from
    ELSE IndexFrom(s, tok, from + 1)

-----------------------------------------------------------------------------
(* Reader.parseContent: tempDiv.innerHTML = html, removal of the script and *)
(* style elements, tempDiv.innerHTML read back.  The HTML fragment parser   *)
(* ("in body" insertion mode, context element div) for the tags p, div,     *)
(* article, script and style; the serializer closes every open element.     *)

Placeholder == <<"<p>", "No content available", "</p>">>

CloseTagOf(e) ==
    CASE e = "p" -> "</p>" [] e = "div" -> "</div>" [] OTHER -> "</article>"

ElementOf(tag) ==
    CASE tag \in {"<p>", "</p>"}     -> "p"
      [] tag \in {"<div>", "</div>"} -> "div"
      [] OTHER                       -> "article"

\* tokens the tree builder drops in a fragment: a doctype, the html start tag,
\* an end tag with no matching open element
IgnoredInBody == {"<!DOCTYPE html>", "<!doctype html>", "<html>", "</script>", "</style>"}

\* end tags of the stack's elements from position from upward, innermost first
RECURSIVE CloseDownTo(_, _)
CloseDownTo(stack, from) ==
    IF Len(stack) < from THEN <<>>
    ELSE <<CloseTagOf(stack[Len(stack)])>>
         \o CloseDownTo(SubSeq(stack, 1, Len(stack) - 1), from)

\* position of the innermost open element e in the stack, 0 when none
RECURSIVE LastOpen(_, _)
LastOpen(stack, e) ==
    IF stack = <<>> THEN 0
    ELSE IF stack[Len(stack)] = e THEN Len(stack)
    ELSE LastOpen(SubSeq(stack, 1, Len(stack) - 1), e)

\* a p element is open (in button scope): with these tags it is the current node
POpen(stack) == stack # <<>> /\ stack[Len(stack)] = "p"
ClosedP(stack) == IF POpen(stack) THEN SubSeq(stack, 1, Len(stack) - 1) ELSE stack
ClosePTag(stack) == IF POpen(stack) THEN <<"</p>">> ELSE <<>>

\* the serialization of what the parser builds from s, with the script and style
\* elements (and the raw text inside them) left out
RECURSIVE ParseFrom(_, _, _)
ParseFrom(s, stack, mode) ==
    IF s = <<>> THEN CloseDownTo(stack, 1)
    ELSE LET t == Head(s)
             r == Tail(s)
         IN  CASE mode = "script" ->
                    ParseFrom(r, stack, IF t = "</script>" THEN "data" ELSE "script")
               [] mode = "style" ->
                    ParseFrom(r, stack, IF t = "</style>" THEN "data" ELSE "style")
               [] mode = "data" /\ t \in IgnoredInBody -> ParseFrom(r, stack, "data")
               [] mode = "data" /\ t = "<script>" -> ParseFrom(r, stack, "script")
               [] mode = "data" /\ t = "<style>" -> ParseFrom(r, stack, "style")
               [] mode = "data" /\ t \in {"<p>", "<div>", "<article>"} ->
                    ClosePTag(stack) \o <<t>>
                    \o ParseFrom(r, Append(ClosedP(stack), ElementOf(t)), "data")
               [] mode = "data" /\ t = "</p>" ->
                    IF POpen(stack)
                    THEN <<"</p>">> \o ParseFrom(r, ClosedP(stack), "data")
                    ELSE <<"<p>", "</p>">> \o ParseFrom(r, stack, "data")
               [] mode = "data" /\ t \in {"</div>", "</article>"} ->
                    LET k == LastOpen(stack, ElementOf(t))
                    IN  IF k = 0 THEN ParseFrom(r, stack, "data")
                        ELSE CloseDownTo(stack, k)
                             \o ParseFrom(r, SubSeq(stack, 1, k - 1), "data")
               [] OTHER -> <<t>> \o ParseFrom(r, stack, "data")

StripScriptsAndStyles(s) == ParseFrom(s, <<>>, "data")

\* parseContent without its guard: '' and undefined go through the parser
parseContentUnguarded(html) == StripScriptsAndStyles(html.s)

\* Reader.parseContent(html)
parseContent(html) ==
    IF Falsy(html) THEN Placeholder ELSE StripScriptsAndStyles(html.s)

-----------------------------------------------------------------------------
(* Reader.markdownToHtml: the chain of String.replace calls, each a global  *)
(* regular expression run left to right over the result of the one before. *)

\* /^MARK (.*$)/gim -> open $1 close : a line that starts with the marker
RECURSIVE HeaderPass(_, _, _, _)
HeaderPass(s, mark, open, close) ==
    IF s = <<>> THEN <<>>
    ELSE LET nl   == IndexFrom(s, "\n", 1)
             line == IF nl = 0 THEN s ELSE SubSeq(s, 1, nl - 1)
             conv == IF line # <<>> /\ Head(line) = mark
                     THEN <<open>> \o Tail(line) \o <<close>>
                     ELSE line
         IN  IF nl = 0 THEN conv
             ELSE conv \o <<"\n">> \o HeaderPass(SubSeq(s, nl + 1, Len(s)), mark, open, close)

\* s holds n stars at position i
StarsAt(s, i, n) == i + n - 1 <= Len(s) /\ \A k \in 0..(n - 1) : s[i + k] = "*"

\* the least j >= from where n stars close the match, 0 when a line end or the
\* end of the text comes first ("." matches no line terminator)
RECURSIVE CloserFrom(_, _, _)
CloserFrom(s, from, n) ==
    IF from + n - 1 > Len(s) THEN 0
    ELSE IF StarsAt(s, from, n) THEN from
    ELSE IF s[from] = "\n" THEN 0
    ELSE CloserFrom(s, from + 1, n)

\* /\*{n}(.*?)\*{n}/gim -> open $1 close, scanning from position i
RECURSIVE StarPass(_, _, _, _, _)
StarPass(s, i, n, open, close) ==
    IF i > Len(s) THEN <<>>
    ELSE LET j == IF StarsAt(s, i, n) THEN CloserFrom(s, i + n, n) ELSE 0
         IN  IF j # 0
             THEN <<open>> \o SubSeq(s, i + n, j - 1) \o <<close>>
                  \o StarPass(s, j + n, n, open, close)
             ELSE <<s[i]>> \o StarPass(s, i + 1, n, open, close)

AnchorOf(text, url) ==
    <<"<a href=\"">> \o url
    \o <<"\" target=\"_blank\" rel=\"noopener noreferrer\">">> \o text \o <<"</a>">>

ImageOf(alt, url) ==
    <<"<img src=\"">> \o url \o <<"\" alt=\"">> \o alt \o <<"\" loading=\"lazy\">">>

\* the match of  \[(G1)\]\((G2)\)  with its "[" at position b, where G1 is
\* [^\]]+ (minAlt = 1) or [^\]]* (minAlt = 0) and G2 is [^)]+ ; end = 0: no match
BracketMatch(s, b, minAlt) ==
    LET j == IF b <= Len(s) /\ s[b] = "[" THEN IndexFrom(s, "]", b + 1) ELSE 0
        k == IF j # 0 /\ j + 1 <= Len(s) /\ s[j + 1] = "("
             THEN IndexFrom(s, ")", j + 2) ELSE 0
        ok == j # 0 /\ j - b - 1 >= minAlt /\ k # 0 /\ k > j + 2
    IN  IF ok
        THEN [end |-> k, g1 |-> SubSeq(s, b + 1, j - 1), g2 |-> SubSeq(s, j + 2, k - 1)]
        ELSE [end |-> 0, g1 |-> <<>>, g2 |-> <<>>]

\* /\[([^\]]+)\]\(([^)]+)\)/gim -> anchor, scanning from position i
RECURSIVE LinkPass(_, _)
LinkPass(s, i) ==
    IF i > Len(s) THEN <<>>
    ELSE LET m == BracketMatch(s, i, 1)
         IN  IF m.end # 0
             THEN AnchorOf(m.g1, m.g2) \o LinkPass(s, m.end + 1)
             ELSE <<s[i]>> \o LinkPass(s, i + 1)

\* /!\[([^\]]*)\]\(([^)]+)\)/gim -> img, scanning from position i
RECURSIVE ImagePass(_, _)
ImagePass(s, i) ==
    IF i > Len(s) THEN <<>>
    ELSE LET m == IF s[i] = "!" THEN BracketMatch(s, i + 1, 0)
                  ELSE [end |-> 0, g1 |-> <<>>, g2 |-> <<>>]
         IN  IF m.end # 0
             THEN ImageOf(m.g1, m.g2) \o ImagePass(s, m.end + 1)
             ELSE <<s[i]>> \o ImagePass(s, i + 1)

\* /\n\n/gim -> '</p><p>'
RECURSIVE ParagraphPass(_)
ParagraphPass(s) ==
    IF s = <<>> THEN <<>>
    ELSE IF Len(s) >= 2 /\ s[1] = "\n" /\ s[2] = "\n"
    THEN <<"</p>", "<p>">> \o ParagraphPass(SubSeq(s, 3, Len(s)))
    ELSE <<Head(s)>> \o ParagraphPass(Tail(s))

\* /\n/gim -> '<br>'
BreakPass(s) == [i \in 1..Len(s) |-> IF s[i] = "\n" THEN "<br>" ELSE s[i]]

Headers(s) ==
    HeaderPass(HeaderPass(HeaderPass(s, "### ", "<h3>", "</h3>"),
                          "## ", "<h2>", "</h2>"),
               "# ", "<h1>", "</h1>")
Bold(s)   == StarPass(s, 1, 2, "<strong>", "</strong>")
Italic(s) == StarPass(s, 1, 1, "<em>", "</em>")
Links(s)  == LinkPass(s, 1)
Images(s) == ImagePass(s, 1)
LineBreaks(s) == BreakPass(ParagraphPass(s))

\* Reader.markdownToHtml(markdown)
markdownToHtml(markdown) ==
    IF Falsy(markdown) THEN Placeholder
    ELSE <<"<p>">> \o LineBreaks(Images(Links(Italic(Bold(Headers(markdown.s))))))
         \o <<"</p>">>

-----------------------------------------------------------------------------
(* Reader.formatContent.  The indentation inside the template literals is   *)
(* left out of the blocks.                                                  *)

\* a contentData object: {success, content, error}
ContentData(success, content, error) ==
    [success |-> success, content |-> content, error |-> error]
Success(content) == ContentData(TRUE, JSString(content), JSUndefined)
Failure(message) == ContentData(FALSE, JSUndefined, JSString(message))

DefaultSuggestion ==
    <<"Please try the ", "embedded view", " or ", "open the original article", ".">>

KeyTip ==
    <<"<p>", "<small>",
      "Tip: Add a free Jina API key in reader.js for higher rate limits (200 req/min instead of 20)",
      "</small>", "</p>">>

\* the block of a failed fetch: contentData.error || the default suggestion, and
\* the tip when no key is configured
UnableToLoadBlock(error, key) ==
    <<"<div class=\"reader-error\">", "<h3>", "Unable to load article content", "</h3>", "<p>">>
    \o (IF Falsy(error) THEN DefaultSuggestion ELSE error.s)
    \o <<"</p>">>
    \o (IF Falsy(JSString(key)) THEN KeyTip ELSE <<>>)
    \o <<"</div>">>

InvalidFormatBlock ==
    <<"<div class=\"reader-error\">", "<h3>", "Invalid content format", "</h3>", "<p>",
      "The article content could not be parsed. Please try the ", "embedded view", ".",
      "</p>", "</div>">>

\* the classification of a successful raw text
IsFullDocument(content) == Includes(content, "<html") \/ Includes(content, "<!DOCTYPE")
IsFragment(content) ==
    Includes(content, "<p>") \/ Includes(content, "<div>") \/ Includes(content, "<article>")

\* Reader.formatContent(contentData), with this.JINA_API_KEY = key
formatContent(data, key) ==
    IF ~data.success THEN UnableToLoadBlock(data.error, key)
    ELSE IF Falsy(data.content) \/ data.content.t # "string" THEN InvalidFormatBlock
    ELSE IF IsFullDocument(data.content.s) THEN parseContent(data.content)
    ELSE IF IsFragment(data.content.s) THEN parseContent(data.content)
    ELSE markdownToHtml(data.content)

-----------------------------------------------------------------------------
(* Reader.fetchArticleContent.  An outcome o is what the network does to    *)
(* the request: fetch() rejects, or resolves to a response whose text()     *)
(* rejects or resolves to a body.                                           *)

\* response.ok
ResponseOk(status) == 200 <= status /\ status <= 299

AuthMsg ==
    <<"Authentication", " failed. Check your Jina API key or remove it to use free tier.">>
RateLimitMsg ==
    <<"Rate limit", " exceeded. Try adding a free Jina API key in reader.js">>
HttpMsg(status, statusText) == <<"HTTP ", ToString(status), ": ">> \o statusText
EmptyMsg == <<"Empty response", " from Jina AI Reader">>

\* how a try block ends: it returns data, or it throws an Error with a message
Returned(data)  == [kind |-> "return", data |-> data, message |-> <<>>]
Thrown(message) == [kind |-> "throw", data |-> Failure(<<>>), message |-> message]

\* how an async function settles
Fulfilled(data)   == [state |-> "fulfilled", data |-> data, message |-> <<>>]
Rejected(message) == [state |-> "rejected", data |-> Failure(<<>>), message |-> message]
Unsettled         == [state |-> "pending", data |-> Failure(<<>>), message |-> <<>>]

\* the status check without its 429 branch
StatusErrorWithout429(status, statusText) ==
    IF status = 401 THEN Thrown(AuthMsg)
    ELSE Thrown(HttpMsg(status, statusText))

\* the Error thrown for a response that is not ok
StatusError(status, statusText) ==
    IF status = 401 THEN Thrown(AuthMsg)
    ELSE IF status = 429 THEN Thrown(RateLimitMsg)
    ELSE Thrown(HttpMsg(status, statusText))

\* the validation of the body without the trim: !content
IsEmptyContentUntrimmed(content) == Falsy(JSString(content))

\* the validation of the body: !content || content.trim().length === 0
IsEmptyContent(content) == Falsy(JSString(content)) \/ Len(Trim(content)) = 0

\* the try block of fetchArticleContent
FetchTry(o) ==
    IF o.fetch = "reject" THEN Thrown(o.message)
    ELSE IF ~ResponseOk(o.status) THEN StatusError(o.status, o.statusText)
    ELSE IF o.text = "reject" THEN Thrown(o.message)
    ELSE IF IsEmptyContent(o.body) THEN Thrown(EmptyMsg)
    ELSE Returned(Success(o.body))

\* a catch block that logs and rethrows, as API.searchNews does
FetchCatchRethrows(c) ==
    IF c.kind = "throw" THEN Rejected(c.message) ELSE Fulfilled(c.data)

\* the catch block of fetchArticleContent: {success: false, error: error.message}
FetchCatch(c) ==
    IF c.kind = "throw" THEN Fulfilled(Failure(c.message)) ELSE Fulfilled(c.data)

\* Reader.fetchArticleContent(url), the network doing o
fetchArticleContent(o) == FetchCatch(FetchTry(o))

-----------------------------------------------------------------------------
(* Reader.extractContent.  formatContent may itself throw: a String.replace *)
(* or a concatenation on a very large body raises a RangeError (invalid     *)
(* string length); o.formatThrows says whether it does.                     *)

RangeErrorMsg == <<"Invalid string length">>

\* how an async function that yields HTML settles
FulfilledHtml(html)   == [state |-> "fulfilled", html |-> html, message |-> <<>>]
RejectedHtml(message) == [state |-> "rejected", html |-> <<>>, message |-> message]
UnsettledHtml         == [state |-> "pending", html |-> <<>>, message |-> <<>>]

ReturnedHtml(html)  == [kind |-> "return", html |-> html, message |-> <<>>]
ThrownHtml(message) == [kind |-> "throw", html |-> <<>>, message |-> message]

ExtractionFailedBlock(message) ==
    <<"<div class=\"reader-error\">", "<h3>", "Content Extraction Failed", "</h3>", "<p>",
      "We couldn't load the article content. Please use the ", "embedded view", " or ",
      "open the original article", ".", "</p>", "<p class=\"error-details\">">>
    \o message \o <<"</p>", "</div>">>

\* the try block of extractContent once fetchArticleContent has settled as p
ExtractTry(p, formatThrows, key) ==
    IF p.state = "rejected" THEN ThrownHtml(p.message)
    ELSE IF p.data.success /\ formatThrows THEN ThrownHtml(RangeErrorMsg)
    ELSE ReturnedHtml(formatContent(p.data, key))

\* extractContent without a catch block: the exception rejects the promise
ExtractCatchMissing(c) ==
    IF c.kind = "throw" THEN RejectedHtml(c.message) ELSE FulfilledHtml(c.html)

\* the catch block of extractContent
ExtractCatch(c) ==
    IF c.kind = "throw" THEN FulfilledHtml(ExtractionFailedBlock(c.message))
    ELSE FulfilledHtml(c.html)

\* Reader.extractContent(url), the network doing o
extractContent(o, key) ==
    ExtractCatch(ExtractTry(fetchArticleContent(o), o.formatThrows, key))

-----------------------------------------------------------------------------
(* Inputs *)

Alphabet ==
    {"Hello", " ", "\n", "<script>", "</script>", "<p>", "<div>", "<html>",
     "<!DOCTYPE html>", "# ", "*"}

\* every text of at most MaxLen tokens
Texts == UNION {[1..n -> Alphabet] : n \in 0..MaxLen}

StatusTextOf(status) ==
    CASE status = 300 -> <<"Multiple Choices">>
      [] status = 401 -> <<"Unauthorized">>
      [] status = 404 -> <<"Not Found">>
      [] status = 429 -> <<"Too Many Requests">>
      [] status = 500 -> <<"Internal Server Error">>
      [] OTHER        -> <<"OK">>

OkStatuses    == {200, 299}
ErrorStatuses == {300, 401, 404, 429, 500}

Outcome(fetch, status, text, body, message, formatThrows) ==
    [fetch |-> fetch, status |-> status, statusText |-> StatusTextOf(status),
     text |-> text, body |-> body, message |-> message, formatThrows |-> formatThrows]

\* fetch() rejects: a network error
NetworkError == Outcome("reject", 0, "none", <<>>, <<"Failed to fetch">>, FALSE)
\* a response that is not ok: its body is never read
ErrorResponse(status) == Outcome("response", status, "none", <<>>, <<>>, FALSE)
\* an ok response whose body cannot be read
BrokenBody(status) == Outcome("response", status, "reject", <<>>, <<"network error">>, FALSE)
\* an ok response with a body
OkResponse(status, body, formatThrows) ==
    Outcome("response", status, "ok", body, <<>>, formatThrows)

Outcomes ==
    {NetworkError}
    \cup {ErrorResponse(st) : st \in ErrorStatuses}
    \cup {BrokenBody(st) : st \in OkStatuses}
    \cup {OkResponse(st, b, f) : st \in OkStatuses, b \in Texts, f \in BOOLEAN}

Keys == {<<>>, <<"jina_key">>}

Null == "null"
Articles == {"a1", "a2"}
UrlOf(article) ==
    CASE article = "a1" -> "https://news.example/a1"
      [] OTHER          -> "https://news.example/a2"

\* what the extraction service can answer for an article in the modal
BodyOf(article) ==
    CASE article = "a1" -> <<"# ", "First", "\n", "one">>
      [] OTHER          -> <<"<p>", "Second", "<script>", "evil", "</script>">>
ModalOutcomes(article) ==
    {OkResponse(200, BodyOf(article), FALSE), ErrorResponse(401), NetworkError}

\* a request of the news service: a search of a query, or the headlines of a
\* category ('' for the top headlines)
Request(kind, arg) == [kind |-> kind, arg |-> arg]
NoRequest == Request("none", <<>>)
\* newsGrid: nothing, the skeleton cards, or the cards of the response to a request
Grid(shows, of) == [shows |-> shows, of |-> of]
\* an operation on the search history, with its argument
HistOp(op, term) == [op |-> op, term |-> term]
NoOp == HistOp("none", <<>>)

-----------------------------------------------------------------------------
(* One call of Reader.extractContent, await by await *)

ReaderIdle ==
    /\ rpc = "idle" /\ net = NetworkError
    /\ contentData = Unsettled /\ extracted = UnsettledHtml
NormIdle ==
    /\ npc = "idle" /\ raw = JSUndefined
    /\ parsed = <<>> /\ converted = <<>> /\ formatted = <<>>
ModalInit ==
    /\ currentArticle = Null
    /\ modalActive = FALSE
    /\ bodyDisplay = "" /\ embedDisplay = ""
    /\ readerBtn = TRUE /\ embedBtn = FALSE
    /\ frameSrc \in {"", "about:blank"}
    /\ readerContent = <<>>
    /\ pending = EmptyBag
    /\ srcAssigns = 0
    /\ lastOp = "init"
    /\ shownFor = Null
\* the search history before UI.init
HistIdle ==
    /\ searchHistory = <<>>
    /\ stored = JSNull
    /\ storageOk = TRUE
    /\ histOp = NoOp
\* the news loader before App.init
NewsIdle ==
    /\ currentCategory = <<>>
    /\ currentSearchQuery = <<>>
    /\ newsInFlight = EmptyBag
    /\ sectionTitle = <<>>
    /\ newsGrid = Grid("nothing", NoRequest)
    /\ errorShown = FALSE
    /\ errorTimers = 0
    /\ succeeded = {}

InitReader ==
    /\ JINA_API_KEY \in Keys
    /\ rpc = "fetching"
    /\ net \in Outcomes
    /\ contentData = Unsettled
    /\ extracted = UnsettledHtml
    /\ NormIdle
    /\ ModalInit /\ frameSrc = ""
    /\ HistIdle /\ NewsIdle

\* await this.fetchArticleContent(url) settles
FetchSettles ==
    /\ rpc = "fetching"
    /\ contentData' = fetchArticleContent(net)
    /\ rpc' = "formatting"
    /\ UNCHANGED <<JINA_API_KEY, net, extracted>>
    /\ UNCHANGED normVars /\ UNCHANGED uiVars /\ UNCHANGED appVars

\* return this.formatContent(contentData), or the catch block
ExtractSettles ==
    /\ rpc = "formatting"
    /\ extracted' = ExtractCatch(ExtractTry(contentData, net.formatThrows, JINA_API_KEY))
    /\ rpc' = "done"
    /\ UNCHANGED <<JINA_API_KEY, net, contentData>>
    /\ UNCHANGED normVars /\ UNCHANGED uiVars /\ UNCHANGED appVars

NextReader == FetchSettles \/ ExtractSettles

SpecReader == InitReader /\ [][NextReader]_vars

-----------------------------------------------------------------------------
(* The normalizer functions applied to one input *)

\* the raw texts: those of Alphabet, with a doctype declaration in lower case
\* and an <article> tag besides
NormAlphabet == Alphabet \cup {"<!doctype html>", "<article>"}
NormTexts == UNION {[1..n -> NormAlphabet] : n \in 0..MaxLen}

RawInputs == {JSUndefined} \cup {JSString(t) : t \in NormTexts}

InitNormalizer ==
    /\ JINA_API_KEY = <<>>
    /\ ReaderIdle
    /\ npc = "input"
    /\ raw \in RawInputs
    /\ parsed = <<>> /\ converted = <<>> /\ formatted = <<>>
    /\ ModalInit /\ frameSrc = ""
    /\ HistIdle /\ NewsIdle

Normalize ==
    /\ npc = "input"
    /\ parsed' = parseContent(raw)
    /\ converted' = markdownToHtml(raw)
    /\ formatted' = formatContent(ContentData(TRUE, raw, JSUndefined), JINA_API_KEY)
    /\ npc' = "done"
    /\ UNCHANGED raw
    /\ UNCHANGED readerVars /\ UNCHANGED uiVars /\ UNCHANGED appVars

NextNormalizer == Normalize

SpecNormalizer == InitNormalizer /\ [][NextNormalizer]_vars

\* the markdown tokens  [text](url)  and  ![alt](url)
LinkToken(text, url) == <<"[">> \o text \o <<"]", "(">> \o url \o <<")">>
ImageToken(alt, url) == <<"!">> \o LinkToken(alt, url)

MdUrl == <<"https://news.example/pic.png">>

\* the pieces a markdown text is made of
MarkdownSegments ==
    {<<"Hello">>, <<" ">>, <<"\n">>, <<"*">>, <<"# ">>, <<"!">>,
     LinkToken(<<"text">>, MdUrl),
     ImageToken(<<>>, MdUrl),
     ImageToken(<<"alt">>, MdUrl)}

\* the texts of n segments
RECURSIVE SegmentTexts(_)
SegmentTexts(n) ==
    IF n = 0 THEN {<<>>}
    ELSE {seg \o t : seg \in MarkdownSegments, t \in SegmentTexts(n - 1)}

MarkdownInputs == {JSString(t) : t \in UNION {SegmentTexts(n) : n \in 1..MaxSegments}}

\* the normalizer functions applied to a markdown text
InitMarkdown ==
    /\ JINA_API_KEY = <<>>
    /\ ReaderIdle
    /\ npc = "input"
    /\ raw \in MarkdownInputs
    /\ parsed = <<>> /\ converted = <<>> /\ formatted = <<>>
    /\ ModalInit /\ frameSrc = ""
    /\ HistIdle /\ NewsIdle

SpecMarkdown == InitMarkdown /\ [][NextNormalizer]_vars

-----------------------------------------------------------------------------
(* The article modal (api.js), driven by the handlers of app.js.  The       *)
(* header fields of the modal (image, source, date, title, description,     *)
(* link to the original) are written by openArticleModal and read by no     *)
(* operation modelled here; they are left out.                              *)

LoadingBlock ==
    <<"<div class=\"reader-loading\">", "<div class=\"spinner-small\">", "</div>",
      "<p>", "Loading article content...", "</p>", "</div>">>

FailedToLoadBlock ==
    <<"<div class=\"reader-error\">", "<h3>", "Failed to load content", "</h3>", "<p>",
      "Unable to extract article content. Please try the ", "embedded view", " or ",
      "open the original article", ".", "</p>", "</div>">>

\* what UI.loadArticleContent writes into the reader pane once
\* Reader.extractContent has settled as p: its HTML, or the catch block
LoadedContent(p) ==
    IF p.state = "rejected" THEN FailedToLoadBlock ELSE p.html

\* showEmbedMode without its condition: the source is assigned on every call
FrameAlwaysUnloaded(src) == TRUE

\* the condition of showEmbedMode: !src || src === 'about:blank'
FrameUnloaded(src) == src = "" \/ src = "about:blank"

\* openArticleModal without its call of showReaderMode
ReaderModeNotShown == UNCHANGED <<bodyDisplay, embedDisplay, readerBtn, embedBtn>>

\* showReaderMode without the hiding of the embed pane
ReaderModeShownOverEmbed ==
    /\ bodyDisplay' = "block"
    /\ readerBtn' = TRUE
    /\ embedBtn' = FALSE
    /\ UNCHANGED embedDisplay

\* UI.showReaderMode: the displays and the buttons
ReaderModeShown ==
    /\ bodyDisplay' = "block"
    /\ embedDisplay' = "none"
    /\ readerBtn' = TRUE
    /\ embedBtn' = FALSE

\* the call this.showReaderMode() in openArticleModal
OpenShowsReaderMode == ReaderModeShown

\* UI.openArticleModal(article), up to the await of Reader.extractContent in
\* loadArticleContent: the request for the article is in flight
openArticleModal(article) ==
    /\ BagCardinality(pending) < MaxInFlight
    /\ currentArticle' = article
    /\ modalActive' = TRUE
    /\ OpenShowsReaderMode
    /\ readerContent' = LoadingBlock
    /\ pending' = pending (+) SetToBag({article})
    /\ srcAssigns' = 0
    /\ lastOp' = "open"
    /\ shownFor' = article
    /\ UNCHANGED frameSrc
    /\ UNCHANGED readerVars /\ UNCHANGED normVars /\ UNCHANGED appVars

\* UI.loadArticleContent after its await: the request for the article settles,
\* the network having done o
loadArticleContent(article, o) ==
    /\ BagIn(article, pending)
    /\ readerContent' = LoadedContent(extractContent(o, JINA_API_KEY))
    /\ pending' = pending (-) SetToBag({article})
    /\ lastOp' = "resolve"
    /\ shownFor' = article
    /\ UNCHANGED <<currentArticle, modalActive, bodyDisplay, embedDisplay, readerBtn,
                   embedBtn, frameSrc, srcAssigns>>
    /\ UNCHANGED readerVars /\ UNCHANGED normVars /\ UNCHANGED appVars

\* closeArticleModal without the reset of the frame
closeArticleModalKeepsFrame ==
    /\ modalActive' = FALSE
    /\ currentArticle' = Null
    /\ lastOp' = "close"
    /\ UNCHANGED <<bodyDisplay, embedDisplay, readerBtn, embedBtn, readerContent,
                   pending, srcAssigns, frameSrc, shownFor>>
    /\ UNCHANGED readerVars /\ UNCHANGED normVars /\ UNCHANGED appVars

\* UI.closeArticleModal (App.handleModalClose, handleOverlayClick, handleEscapeKey)
closeArticleModal ==
    /\ modalActive' = FALSE
    /\ currentArticle' = Null
    /\ frameSrc' = "about:blank"
    /\ lastOp' = "close"
    /\ UNCHANGED <<bodyDisplay, embedDisplay, readerBtn, embedBtn, readerContent,
                   pending, srcAssigns, shownFor>>
    /\ UNCHANGED readerVars /\ UNCHANGED normVars /\ UNCHANGED appVars

\* UI.showReaderMode (App.handleViewModeToggle, mode 'reader')
showReaderMode ==
    /\ ReaderModeShown
    /\ lastOp' = "reader"
    /\ UNCHANGED <<currentArticle, modalActive, frameSrc, readerContent, pending,
                   srcAssigns, shownFor>>
    /\ UNCHANGED readerVars /\ UNCHANGED normVars /\ UNCHANGED appVars

\* UI.showEmbedMode (App.handleViewModeToggle, mode 'embed').  With no current
\* article and an unloaded frame, this.currentArticle.url throws a TypeError
\* after the displays and the buttons were set: the frame keeps its source.
showEmbedMode ==
    /\ bodyDisplay' = "none"
    /\ embedDisplay' = "block"
    /\ readerBtn' = FALSE
    /\ embedBtn' = TRUE
    /\ IF FrameUnloaded(frameSrc) /\ currentArticle # Null
       THEN /\ frameSrc' = UrlOf(currentArticle)
            /\ srcAssigns' = srcAssigns + 1
       ELSE UNCHANGED <<frameSrc, srcAssigns>>
    /\ lastOp' = IF ~FrameUnloaded(frameSrc) THEN "embed"
                 ELSE IF currentArticle = Null THEN "embed-threw"
                 ELSE "embed-loaded"
    /\ UNCHANGED <<currentArticle, modalActive, readerContent, pending, shownFor>>
    /\ UNCHANGED readerVars /\ UNCHANGED normVars /\ UNCHANGED appVars

Init ==
    /\ JINA_API_KEY = <<>>
    /\ ReaderIdle
    /\ NormIdle
    /\ ModalInit
    /\ HistIdle /\ NewsIdle

Next ==
    \/ \E article \in Articles : openArticleModal(article)
    \/ \E article \in Articles : \E o \in ModalOutcomes(article) : loadArticleContent(article, o)
    \/ closeArticleModal
    \/ showReaderMode
    \/ showEmbedMode

Spec == Init /\ [][Next]_vars

-----------------------------------------------------------------------------
(* The search history (api.js).  A term is a string; the list is persisted  *)
(* in localStorage under 'newsHub_searchHistory' as JSON.                   *)

\* UI.maxSearchHistory
maxSearchHistory == 5

\* String.prototype.toLowerCase, token by token
LowerTok(tok) ==
    CASE tok = "AI" -> "ai"
      [] tok = "Ai" -> "ai"
      [] OTHER      -> tok
toLowerCase(s) == [i \in 1..Len(s) |-> LowerTok(s[i])]

\* JSON.stringify of a list of strings: ["t1","t2"]
RECURSIVE StringifyItems(_)
StringifyItems(list) ==
    IF list = <<>> THEN <<>>
    ELSE <<"\"">> \o Head(list) \o <<"\"">>
         \o (IF Tail(list) = <<>> THEN <<>> ELSE <<",">> \o StringifyItems(Tail(list)))
JSONStringify(list) == <<"[">> \o StringifyItems(list) \o <<"]">>

\* JSON.parse of the text of a list of strings, read token by token; acc holds
\* the items read so far, the last of them still open when inString
RECURSIVE ParseItems(_, _, _, _)
ParseItems(s, i, inString, acc) ==
    IF i > Len(s) THEN acc
    ELSE IF s[i] = "\""
         THEN IF inString THEN ParseItems(s, i + 1, FALSE, acc)
              ELSE ParseItems(s, i + 1, TRUE, Append(acc, <<>>))
    ELSE IF inString
         THEN ParseItems(s, i + 1, TRUE, [acc EXCEPT ![Len(acc)] = Append(@, s[i])])
    ELSE ParseItems(s, i + 1, FALSE, acc)
JSONParse(s) == ParseItems(s, 1, FALSE, <<>>)

\* the list UI.loadSearchHistory reads from what localStorage holds
Loaded(saved) == IF Falsy(saved) THEN <<>> ELSE JSONParse(saved.s)

\* addToSearchHistory with a case-sensitive comparison
AddedCaseSensitive(history, term) ==
    LET trimmedTerm == Trim(term)
        unshifted   == <<trimmedTerm>> \o SelectSeq(history, LAMBDA t : t # trimmedTerm)
    IN  IF Len(unshifted) > maxSearchHistory
        THEN SubSeq(unshifted, 1, maxSearchHistory) ELSE unshifted

\* the list UI.addToSearchHistory leaves for a term that is not blank
Added(history, term) ==
    LET trimmedTerm == Trim(term)
        filtered    == SelectSeq(history,
                           LAMBDA t : toLowerCase(t) # toLowerCase(trimmedTerm))
        unshifted   == <<trimmedTerm>> \o filtered
    IN  IF Len(unshifted) > maxSearchHistory
        THEN SubSeq(unshifted, 1, maxSearchHistory) ELSE unshifted

\* UI.saveSearchHistory: the write of the new list, or the catch block when
\* setItem throws
saveSearchHistory ==
    stored' = IF storageOk THEN JSString(JSONStringify(searchHistory')) ELSE stored

\* UI.addToSearchHistory(term): a blank term returns before anything is written
addToSearchHistory(term) ==
    IF term = <<>> \/ Trim(term) = <<>>
    THEN UNCHANGED <<searchHistory, stored>>
    ELSE /\ searchHistory' = Added(searchHistory, term)
         /\ saveSearchHistory

\* removeFromSearchHistory without its call of saveSearchHistory
removeFromSearchHistoryUnsaved(term) ==
    /\ searchHistory' = SelectSeq(searchHistory, LAMBDA t : t # term)
    /\ UNCHANGED stored

\* UI.removeFromSearchHistory(term)
removeFromSearchHistory(term) ==
    /\ searchHistory' = SelectSeq(searchHistory, LAMBDA t : t # term)
    /\ saveSearchHistory

\* UI.clearSearchHistory
clearSearchHistory ==
    /\ searchHistory' = <<>>
    /\ saveSearchHistory

\* UI.loadSearchHistory in UI.init, the page being loaded again
loadSearchHistory ==
    /\ searchHistory' = Loaded(stored)
    /\ UNCHANGED stored

\* the terms the user enters or picks
HistoryTerms ==
    {<<>>, <<" ">>, <<"AI">>, <<"ai">>, <<" ", "ai", " ">>, <<"news">>, <<"tech">>,
     <<"sport">>, <<"music">>, <<"food">>}

InitHistory ==
    /\ JINA_API_KEY = <<>>
    /\ ReaderIdle
    /\ NormIdle
    /\ ModalInit /\ frameSrc = ""
    /\ NewsIdle
    /\ searchHistory = <<>>
    /\ stored = JSNull
    /\ storageOk \in BOOLEAN
    /\ histOp = NoOp

HistoryFrame ==
    /\ UNCHANGED storageOk
    /\ UNCHANGED readerVars /\ UNCHANGED normVars /\ UNCHANGED uiVars
    /\ UNCHANGED newsVars

AddTerm(term) ==
    addToSearchHistory(term) /\ histOp' = HistOp("add", term) /\ HistoryFrame
RemoveTerm(term) ==
    removeFromSearchHistory(term) /\ histOp' = HistOp("remove", term) /\ HistoryFrame
ClearTerms ==
    clearSearchHistory /\ histOp' = HistOp("clear", <<>>) /\ HistoryFrame
Reload ==
    loadSearchHistory /\ histOp' = HistOp("load", <<>>) /\ HistoryFrame

NextHistory ==
    \/ \E term \in HistoryTerms : AddTerm(term)
    \/ \E term \in HistoryTerms : RemoveTerm(term)
    \/ ClearTerms
    \/ Reload

SpecHistory == InitHistory /\ [][NextHistory]_vars

-----------------------------------------------------------------------------
(* The news loader (app.js).  App.loadNews runs up to its await when a      *)
(* handler calls it, and from its await on when the request settles; the    *)
(* handlers do not wait for it, so calls of loadNews overlap.               *)

Categories == {<<"business">>, <<"technology">>}

\* what the user has typed into the search input when handleSearch runs
SearchInputs == {<<>>, <<" ">>, <<"AI">>, <<" ", "news", " ">>}

\* what the news service does to a request: the cards of a response, a response
\* without articles, a response whose status is not 'ok', or an exception
\* (a network error, a status that is not ok)
NewsOutcomes == {"ok", "no-articles", "not-ok", "throws"}

\* category.charAt(0).toUpperCase() + category.slice(1)
Capitalized(category) ==
    CASE category = <<"business">>   -> <<"Business">>
      [] category = <<"technology">> -> <<"Technology">>
      [] OTHER                       -> category

SearchTitle(query) == <<"Search: \"">> \o query \o <<"\"">>
HeadlinesTitle(category) ==
    (IF category = <<>> THEN <<"Top">> ELSE Capitalized(category)) \o <<" Headlines">>

\* UI.showError: the message is shown and the grid emptied
showError ==
    /\ errorShown' = TRUE
    /\ newsGrid' = Grid("nothing", NoRequest)

\* App.loadNews up to its await, the fields having the values query and
\* category: the skeleton is shown and the request is in flight
loadNews(query, category) ==
    /\ BagCardinality(newsInFlight) < MaxNewsInFlight
    /\ errorShown' = FALSE
    /\ newsGrid' = Grid("skeleton", NoRequest)
    /\ newsInFlight' = newsInFlight (+) SetToBag({
           IF query # <<>> THEN Request("search", query)
           ELSE Request("headlines", category)})

NewsFrame ==
    /\ UNCHANGED storageOk
    /\ UNCHANGED readerVars /\ UNCHANGED normVars /\ UNCHANGED uiVars

\* App.handleCategoryClick on the button of a category
handleCategoryClick(category) ==
    /\ currentCategory' = category
    /\ currentSearchQuery' = <<>>
    /\ loadNews(<<>>, category)
    /\ UNCHANGED <<sectionTitle, errorTimers, succeeded>>
    /\ UNCHANGED <<searchHistory, stored, histOp>>
    /\ NewsFrame

\* handleSearch without the reset of the category
handleSearchKeepsCategory(input) ==
    LET query == Trim(input)
    IN  IF query # <<>>
        THEN /\ currentSearchQuery' = query
             /\ loadNews(query, currentCategory)
             /\ UNCHANGED <<currentCategory, sectionTitle, errorTimers, succeeded>>
             /\ UNCHANGED <<searchHistory, stored, histOp>>
             /\ NewsFrame
        ELSE /\ errorTimers < MaxTimers
             /\ showError
             /\ errorTimers' = errorTimers + 1
             /\ UNCHANGED <<currentCategory, currentSearchQuery, newsInFlight,
                            sectionTitle, succeeded>>
             /\ UNCHANGED <<searchHistory, stored, histOp>>
             /\ NewsFrame

\* App.handleSearch, the search input holding input
handleSearch(input) ==
    LET query == Trim(input)
    IN  IF query # <<>>
        THEN /\ currentSearchQuery' = query
             /\ currentCategory' = <<>>
             /\ loadNews(query, <<>>)
             /\ UNCHANGED <<sectionTitle, errorTimers, succeeded>>
             /\ UNCHANGED <<searchHistory, stored, histOp>>
             /\ NewsFrame
        ELSE /\ errorTimers < MaxTimers
             /\ showError
             /\ errorTimers' = errorTimers + 1
             /\ UNCHANGED <<currentCategory, currentSearchQuery, newsInFlight,
                            sectionTitle, succeeded>>
             /\ UNCHANGED <<searchHistory, stored, histOp>>
             /\ NewsFrame

\* the timeout of handleSearch fires
hideErrorTimeout ==
    /\ errorTimers > 0
    /\ errorTimers' = errorTimers - 1
    /\ errorShown' = FALSE
    /\ UNCHANGED <<currentCategory, currentSearchQuery, newsInFlight, sectionTitle,
                   newsGrid, succeeded>>
    /\ UNCHANGED <<searchHistory, stored, histOp>>
    /\ NewsFrame

\* App.loadNews from its await on: the request settles, the news service having
\* done o.  The title and the term for the history are read from the fields as
\* they are now.
loadNewsAwaited(request, o) ==
    /\ BagIn(request, newsInFlight)
    /\ newsInFlight' = newsInFlight (-) SetToBag({request})
    /\ IF o = "throws"
       THEN /\ showError
            /\ UNCHANGED <<sectionTitle, succeeded>>
            /\ UNCHANGED <<searchHistory, stored, histOp>>
       ELSE /\ IF request.kind = "search"
               THEN /\ sectionTitle' = SearchTitle(currentSearchQuery)
                    /\ addToSearchHistory(currentSearchQuery)
                    /\ histOp' = HistOp("add", currentSearchQuery)
                    /\ succeeded' = succeeded \cup {request.arg}
               ELSE /\ sectionTitle' = HeadlinesTitle(currentCategory)
                    /\ UNCHANGED <<searchHistory, stored, histOp, succeeded>>
            /\ CASE o = "ok" ->
                      /\ newsGrid' = Grid("cards", request)
                      /\ UNCHANGED errorShown
                 [] o = "no-articles" ->
                      /\ newsGrid' = Grid("empty", NoRequest)
                      /\ UNCHANGED errorShown
                 [] OTHER -> showError
    /\ UNCHANGED <<currentCategory, currentSearchQuery, errorTimers>>
    /\ NewsFrame

\* the requests of the news service the model can issue
Requests ==
    {Request("headlines", c) : c \in Categories \cup {<<>>}}
    \cup {Request("search", Trim(i)) : i \in SearchInputs \ {<<>>, <<" ">>}}

\* App.init: the top headlines are requested
InitNews ==
    /\ JINA_API_KEY = <<>>
    /\ ReaderIdle
    /\ NormIdle
    /\ ModalInit /\ frameSrc = ""
    /\ HistIdle
    /\ currentCategory = <<>>
    /\ currentSearchQuery = <<>>
    /\ newsInFlight = SetToBag({Request("headlines", <<>>)})
    /\ sectionTitle = <<>>
    /\ newsGrid = Grid("skeleton", NoRequest)
    /\ errorShown = FALSE
    /\ errorTimers = 0
    /\ succeeded = {}

NextNews ==
    \/ \E category \in Categories : handleCategoryClick(category)
    \/ \E input \in SearchInputs : handleSearch(input)
    \/ hideErrorTimeout
    \/ \E request \in Requests : \E o \in NewsOutcomes : loadNewsAwaited(request, o)

SpecNews == InitNews /\ [][NextNews]_vars

-----------------------------------------------------------------------------
(* Properties of the content pipeline (SpecReader, SpecNormalizer) *)

\* s holds a <script> start tag and, after it, a </script> end tag
HasScriptElement(s) ==
    \E i \in 1..Len(s) : \E j \in (i + 1)..Len(s) :
        s[i] = "<script>" /\ s[j] = "</script>"

\* sub occurs in s
ContainsSeq(s, sub) ==
    \E i \in 1..(Len(s) - Len(sub) + 1) : SubSeq(s, i, i + Len(sub) - 1) = sub

FetchSettled == rpc \in {"formatting", "done"}
FetchSucceeded == contentData.state = "fulfilled" /\ contentData.data.success
FetchFailed == contentData.state = "fulfilled" /\ ~contentData.data.success

\* a string that is not empty and holds whitespace only
IsBlank(v) == v.t = "string" /\ v.s # <<>> /\ Trim(v.s) = <<>>

\* the block suggests the embedded view or the original article
OffersEscapeHatch(html) ==
    \E i \in 1..Len(html) : html[i] \in {"embedded view", "open the original article"}

\* C1: every raw text with a <script>...</script> element that a successful fetch
\* returned is rendered by extractContent as HTML with no <script> element,
\* whichever branch (full document, fragment, markdown) formatContent takes.
C1_RenderedHtmlHasNoScript ==
    (rpc = "done" /\ FetchSucceeded /\ HasScriptElement(net.body))
        => ~Includes(extracted.html, "<script")

\* C2, as claimed: every empty, missing or whitespace-only input gives the
\* 'No content available' placeholder at every stage (parseContent,
\* markdownToHtml, formatContent of a successful result).
C2_BlankInputGivesPlaceholder ==
    (npc = "done" /\ (Falsy(raw) \/ IsBlank(raw)))
        => /\ parsed = Placeholder
           /\ converted = Placeholder
           /\ formatted = Placeholder

\* C2, amended: an empty or missing input gives the placeholder from parseContent
\* and markdownToHtml and the 'Invalid content format' block from formatContent;
\* a whitespace-only input is not taken for empty: parseContent returns it as it
\* is, markdownToHtml and formatContent return it in a paragraph element with its
\* line feeds turned into breaks; no stage returns an empty string.
C2_EmptyInputGivesPlaceholder ==
    npc = "done" =>
        /\ Falsy(raw) => /\ parsed = Placeholder
                         /\ converted = Placeholder
                         /\ formatted = InvalidFormatBlock
        /\ IsBlank(raw) => /\ parsed = raw.s
                           /\ converted = <<"<p>">> \o LineBreaks(raw.s) \o <<"</p>">>
                           /\ formatted = converted
        /\ (Falsy(raw) \/ IsBlank(raw))
              => parsed # <<>> /\ converted # <<>> /\ formatted # <<>>

C2_Witness ==
    /\ npc = "done"
    /\ raw = JSString(<<" ", "\n">>)
    /\ parsed = <<" ", "\n">>
    /\ formatted = <<"<p>", " ", "<br>", "</p>">>

\* C3: the block rendered for every failed fetch names the failure reason and
\* offers an escape hatch (the embedded view or the original article); for a 401
\* it holds 'Authentication' and the suggestion of the embedded view.
C3_FailureBlockOffersEscapeHatch ==
    (rpc = "done" /\ FetchFailed)
        => /\ ContainsSeq(extracted.html, contentData.data.error.s)
           /\ OffersEscapeHatch(extracted.html)
           /\ (net.fetch = "response" /\ net.status = 401)
                 => /\ Includes(extracted.html, "Authentication")
                    /\ Includes(extracted.html, "embedded view")

\* C4: fetchArticleContent never rejects: whatever the network does, it fulfils
\* with exactly one of Success{content} (a string) and Failure{error} (a string).
C4_FetchAlwaysFulfils ==
    FetchSettled =>
        /\ contentData.state = "fulfilled"
        /\ contentData.data.success
              => /\ contentData.data.content.t = "string"
                 /\ contentData.data.error = JSUndefined
        /\ ~contentData.data.success
              => /\ contentData.data.error.t = "string"
                 /\ contentData.data.content = JSUndefined

C4_Witness ==
    /\ rpc = "done"
    /\ net.fetch = "response" /\ net.text = "reject"
    /\ contentData = Fulfilled(Failure(<<"network error">>))

\* C5: fetchArticleContent succeeds exactly when the status is in 200..299 and the
\* body is not empty once trimmed; a success status with an empty or
\* whitespace-only body is the Failure with the 'empty response' reason.
C5_SuccessIffOkAndBody ==
    FetchSettled =>
        LET okStatus == net.fetch = "response" /\ net.status \in 200..299
            hasBody  == net.text = "ok" /\ Trim(net.body) # <<>>
        IN  /\ FetchSucceeded <=> (okStatus /\ hasBody)
            /\ (okStatus /\ net.text = "ok" /\ Trim(net.body) = <<>>)
                  => contentData = Fulfilled(Failure(EmptyMsg))

C5_Witness ==
    /\ rpc = "done"
    /\ net.status = 200 /\ net.body = <<" ", "\n">>
    /\ contentData.data.error = JSString(EmptyMsg)

\* C6: the failure reason follows the status: 401 the authentication message, 429
\* the rate-limit message, any other non-success status 'HTTP {status}'; the three
\* are pairwise distinct, and the block rendered for a 429 differs from the block
\* for any other non-success status.
C6_ReasonByStatus ==
    (FetchSettled /\ net.fetch = "response" /\ net.status \notin 200..299) =>
        LET generic == <<"HTTP ", ToString(net.status), ": ">> \o net.statusText
            reason  == contentData.data.error.s
        IN  /\ FetchFailed
            /\ net.status = 401 => reason = AuthMsg
            /\ net.status = 429 => reason = RateLimitMsg
            /\ net.status \notin {401, 429} => reason = generic
            /\ AuthMsg # RateLimitMsg /\ AuthMsg # generic /\ RateLimitMsg # generic
            /\ (rpc = "done" /\ net.status # 429)
                  => extracted.html # extractContent(ErrorResponse(429), JINA_API_KEY).html

C6_Witness ==
    /\ rpc = "done"
    /\ net.status = 429
    /\ ContainsSeq(extracted.html, RateLimitMsg)

\* C7: extractContent never rejects: an exception raised while the content is
\* fetched, classified or transformed becomes the 'Content Extraction Failed'
\* block with the exception's message, so loadArticleContent gets HTML.
C7_ExtractNeverRejects ==
    rpc = "done" =>
        /\ extracted.state = "fulfilled"
        /\ (FetchSucceeded /\ net.formatThrows)
              => /\ Includes(extracted.html, "Content Extraction Failed")
                 /\ ContainsSeq(extracted.html, RangeErrorMsg)
        /\ LoadedContent(extracted) = extracted.html

C7_Witness ==
    /\ rpc = "done"
    /\ FetchSucceeded /\ net.formatThrows
    /\ extracted.state = "fulfilled"
    /\ Includes(extracted.html, "Content Extraction Failed")

-----------------------------------------------------------------------------
(* Properties of the article modal (Spec) *)

ReaderModeActive ==
    bodyDisplay = "block" /\ embedDisplay = "none" /\ readerBtn /\ ~embedBtn

ModalClosed == frameSrc = "about:blank" /\ currentArticle = Null

\* C8: between the opening of an article and its closing the source of the frame
\* is assigned at most once, however often the user toggles the mode: showEmbedMode
\* assigns it only when it is unset or 'about:blank'.
C8_FrameSourceAssignedOnce == srcAssigns <= 1

\* the user is back in Embed mode and the frame kept the source it had
C8_Witness ==
    /\ modalActive
    /\ lastOp = "embed"
    /\ srcAssigns = 1
    /\ frameSrc = UrlOf(currentArticle)

\* C9: closeArticleModal leaves the frame at 'about:blank' and the current article
\* null, from any state, and both stay so until the next openArticleModal, also
\* when a pending content request resolves in between.
C9_ClosedStaysBlank ==
    [][ /\ lastOp' = "close" => ModalClosed'
        /\ (ModalClosed /\ ~modalActive /\ lastOp' # "open") => ModalClosed' ]_vars

\* a request resolved after the modal was closed
C9_Witness ==
    /\ lastOp = "resolve"
    /\ ~modalActive
    /\ ModalClosed
    /\ readerContent # LoadingBlock

\* what C10 says of a state
C10_State ==
    /\ lastOp = "open"
          => /\ currentArticle \in Articles
             /\ BagIn(currentArticle, pending)
             /\ ReaderModeActive
             /\ readerContent = LoadingBlock
    /\ lastOp = "resolve" => readerContent # LoadingBlock
    /\ readerContent = LoadingBlock => pending # EmptyBag
    /\ (readerContent = LoadingBlock /\ currentArticle # Null)
          => BagIn(currentArticle, pending)

\* C10: openArticleModal makes the article current, shows Reader mode and puts the
\* loading placeholder into the pane; the resolution of a content request puts the
\* HTML it resolved to in the pane, and the pane shows the placeholder only while
\* the request of the current article is in flight.
C10_OpenThenResolve ==
    [][ /\ C10_State'
        /\ \A a \in Articles :
              (lastOp' = "open" /\ CopiesIn(a, pending') = CopiesIn(a, pending) + 1)
                  => currentArticle' = a
        /\ \A a \in Articles : \A o \in ModalOutcomes(a) :
              loadArticleContent(a, o)
                  => readerContent' = extractContent(o, JINA_API_KEY).html ]_vars

\* the request of the article that is open has resolved to its text
C10_Witness ==
    /\ lastOp = "resolve"
    /\ currentArticle = "a1"
    /\ pending = EmptyBag
    /\ readerContent = <<"<p>", "<h1>", "First", "</h1>", "<br>", "one", "</p>">>

\* the embed pane is visible, the reader pane hidden, the Embed button active
EmbedModeActive ==
    bodyDisplay = "none" /\ embedDisplay = "block" /\ embedBtn /\ ~readerBtn

\* C11: while an article is open exactly one view mode is active: the reader pane
\* is visible, the embed pane hidden and the Reader button active, or the reverse.
C11_ExactlyOneViewMode ==
    modalActive =>
        \/ ReaderModeActive /\ ~EmbedModeActive
        \/ EmbedModeActive /\ ~ReaderModeActive

\* the user went to Embed mode and back to Reader mode with the article open
C11_Witness ==
    /\ modalActive
    /\ lastOp = "reader"
    /\ srcAssigns = 1
    /\ ReaderModeActive

\* C18: the late result of an earlier content request is discarded: once all
\* requests in flight have resolved, in either order, the pane holds the content
\* of the article opened last, and a result that arrives after the modal was
\* closed is never what is shown for an article opened later.
C18_LatestArticleShown ==
    (pending = EmptyBag /\ currentArticle # Null) => shownFor = currentArticle

\* C21: whenever the modal is in Embed mode with an article open, the source of
\* the frame is the URL of the current article, for every sequence of
\* openArticleModal, closeArticleModal, showReaderMode and showEmbedMode, the
\* opening of another article without a close of the first included.
C21_FrameShowsCurrentArticle ==
    (EmbedModeActive /\ currentArticle # Null) => frameSrc = UrlOf(currentArticle)

-----------------------------------------------------------------------------
(* Properties of the normalizer functions (SpecNormalizer, SpecMarkdown) *)

\* the text holds a doctype declaration, in either case
HasDoctype(s) == \E i \in 1..Len(s) : s[i] \in {"<!DOCTYPE html>", "<!doctype html>"}

\* the text holds one of the fragment tags <p>, <div>, <article>
HasFragmentTag(s) == \E i \in 1..Len(s) : s[i] \in {"<p>", "<div>", "<article>"}

\* C15: formatContent classifies a successful raw text in a fixed order: with a
\* full-document marker ('<html' or a doctype declaration) it is sanitized as a
\* full document, else with a fragment tag it is sanitized, else it is converted
\* as markdown; so every text that holds a doctype declaration or a fragment tag
\* goes through the script/style stripping and never through the markdown
\* conversion.
C15_ClassifiedInOrder ==
    (npc = "done" /\ ~Falsy(raw)) =>
        IF Includes(raw.s, "<html") \/ HasDoctype(raw.s) \/ HasFragmentTag(raw.s)
        THEN formatted = parsed
        ELSE formatted = converted

\* the start of the anchor markdownToHtml makes of a link to url
AnchorStart(url) ==
    <<"<a href=\"">> \o url \o <<"\" target=\"_blank\" rel=\"noopener noreferrer\">">>

\* C16: the markdown substitutions run in the order headers, bold, italic, links,
\* images, and every image token ![alt](url), its alt empty or not, comes out as
\* a lazy-loaded <img> with that src and alt, every link token [text](url) as an
\* anchor with that href, target="_blank" and rel="noopener noreferrer".
C16_ImagesAndLinksConverted ==
    (npc = "done" /\ ~Falsy(raw)) =>
        /\ converted = <<"<p>">> \o LineBreaks(Images(Links(Italic(Bold(Headers(raw.s))))))
                       \o <<"</p>">>
        /\ \A alt \in {<<>>, <<"alt">>} :
              ContainsSeq(raw.s, ImageToken(alt, MdUrl))
                  => ContainsSeq(converted, ImageOf(alt, MdUrl))
        /\ ContainsSeq(raw.s, LinkToken(<<"text">>, MdUrl))
              => ContainsSeq(converted, AnchorStart(MdUrl))

\* C17: parseContent is idempotent: for every input html,
\* parseContent(parseContent(html)) equals parseContent(html).
C17_ParseContentIdempotent ==
    npc = "done" => parseContent(JSString(parsed)) = parsed

-----------------------------------------------------------------------------
(* Properties of the search history (SpecHistory) *)

\* two terms that are equal but for the case of their letters
SameTerm(a, b) == toLowerCase(a) = toLowerCase(b)

\* a is b with some of its entries left out, the others in their order
RECURSIVE IsSubsequence(_, _)
IsSubsequence(a, b) ==
    IF a = <<>> THEN TRUE
    ELSE IF b = <<>> THEN FALSE
    ELSE IF Head(a) = Head(b) THEN IsSubsequence(Tail(a), Tail(b))
    ELSE IsSubsequence(a, Tail(b))

Occurs(term, list) == \E i \in 1..Len(list) : list[i] = term

\* number of entries of the list that differ from the term in more than case
OthersIn(list, term) ==
    Cardinality({i \in 1..Len(list) : ~SameTerm(list[i], term)})

\* at most maxSearchHistory terms, no two of them equal but for case
C12_State ==
    /\ Len(searchHistory) <= 5
    /\ \A i, j \in 1..Len(searchHistory) :
          i # j => ~SameTerm(searchHistory[i], searchHistory[j])

\* C12: after any sequence of additions, removals and clearings from the empty
\* history, the history holds at most 5 terms, no two of them equal but for case,
\* the most recently added first: an addition puts the (trimmed) term at the front,
\* in its new spelling, ahead of the other terms, which keep their order and lose
\* only their last when the list is full; a removal and a clearing take terms
\* away and leave the order of the others.
C12_HistoryBoundedUniqueRecentFirst ==
    [][ /\ C12_State'
        /\ (histOp'.op = "add" /\ Trim(histOp'.term) # <<>>)
              => /\ Head(searchHistory') = Trim(histOp'.term)
                 /\ IsSubsequence(Tail(searchHistory'), searchHistory)
                 /\ \A i \in 2..Len(searchHistory') :
                       ~SameTerm(searchHistory'[i], histOp'.term)
                 /\ Len(searchHistory') =
                       (IF OthersIn(searchHistory, Trim(histOp'.term)) >= 5 THEN 5
                        ELSE OthersIn(searchHistory, Trim(histOp'.term)) + 1)
        /\ histOp'.op = "remove"
              => /\ IsSubsequence(searchHistory', searchHistory)
                 /\ ~Occurs(histOp'.term, searchHistory')
                 /\ Len(searchHistory') >= Len(searchHistory) - 1
        /\ histOp'.op = "clear" => searchHistory' = <<>> ]_vars

\* 'ai' was added to a full history: it is at the front, in the spelling entered
\* last, and the list is still full
C12_Witness ==
    /\ histOp = HistOp("add", <<" ", "ai", " ">>)
    /\ Len(searchHistory) = 5
    /\ Head(searchHistory) = <<"ai">>
    /\ ~Occurs(<<"AI">>, searchHistory)

\* C13: after an addition, a removal or a clearing whose write to localStorage
\* succeeded, the stored list equals the list in memory: loading the page again
\* restores exactly that list.
C13_StoredEqualsMemory ==
    [][ ( /\ histOp'.op \in {"add", "remove", "clear"}
          /\ storageOk
          /\ ~(histOp'.op = "add" /\ Trim(histOp'.term) = <<>>) )
            => /\ stored' = JSString(JSONStringify(searchHistory'))
               /\ Loaded(stored') = searchHistory' ]_vars

\* a term was removed from a full history and the list of four was stored
C13_Witness ==
    /\ histOp.op = "remove"
    /\ storageOk
    /\ Len(searchHistory) = 4
    /\ Loaded(stored) = searchHistory
    /\ stored.t = "string"

-----------------------------------------------------------------------------
(* Properties of the news loader (SpecNews) *)

\* the requests in flight: of the news service and of the extraction service
RequestsInFlight == BagCardinality(newsInFlight) + BagCardinality(pending)

\* C14: at no time are two outbound requests in flight at once, whatever the
\* sequence of category clicks, searches, article selections and closes.
C14_OneRequestInFlight == RequestsInFlight <= 1

\* the request for the state as it is now: the search of the current query when
\* it is not empty, else the headlines of the current category
CurrentRequest ==
    IF currentSearchQuery # <<>> THEN Request("search", currentSearchQuery)
    ELSE Request("headlines", currentCategory)

TitleOf(request) ==
    IF request.kind = "search" THEN SearchTitle(request.arg)
    ELSE HeadlinesTitle(request.arg)

\* C19: once all requests of loadNews in flight have completed, in any order, the
\* cards in the grid and the section title both belong to the current state (the
\* current query when it is not empty, else the current category): the response
\* to an older request is never shown under, or in place of, the latest results.
C19_GridAndTitleOfCurrentState ==
    (newsInFlight = EmptyBag /\ newsGrid.shows = "cards")
        => /\ newsGrid.of = CurrentRequest
           /\ sectionTitle = TitleOf(CurrentRequest)

\* C20: every term that loadNews adds to the search history is a query whose own
\* search request returned without an HTTP or network error; a query whose
\* request failed or is still pending is never added.
C20_HistoryHoldsAnsweredQueries ==
    \A i \in 1..Len(searchHistory) : searchHistory[i] \in succeeded

\* C22: in every reachable state of App, currentCategory and currentSearchQuery
\* are not both non-empty: a category click sets the category and clears the
\* query, a search that is not blank sets the query and clears the category, and
\* a blank search (an empty or whitespace-only input) changes neither field and
\* issues no request.
C22_CategoryOrQuery ==
    [][ /\ ~(currentCategory' # <<>> /\ currentSearchQuery' # <<>>)
        /\ \A category \in Categories :
              handleCategoryClick(category)
                  => /\ currentCategory' = category
                     /\ currentSearchQuery' = <<>>
        /\ \A input \in SearchInputs :
              handleSearch(input)
                  => IF Trim(input) # <<>>
                     THEN /\ currentSearchQuery' = Trim(input)
                          /\ currentCategory' = <<>>
                     ELSE /\ currentSearchQuery' = currentSearchQuery
                          /\ currentCategory' = currentCategory
                          /\ newsInFlight' = newsInFlight ]_vars

\* a blank search was made after a category click: the category is still
\* current, the timeout of the blank search is pending, nothing is in flight
C22_Witness ==
    /\ errorTimers = 1
    /\ errorShown
    /\ currentCategory = <<"business">>
    /\ currentSearchQuery = <<>>
    /\ newsInFlight = EmptyBag

=============================================================================
